---- MODULE Spec2Model ----
(***************************************************************************)
(* A model of the textedit server and client library:                      *)
(*   - MemStorage (server/storage.ts) and the request handlers that call   *)
(*     it (server/routes.ts),                                              *)
(*   - the AI provider gateway getAIResponse (server/ai-providers.ts),     *)
(*   - multiProviderConsensus (server/ai-services-enhanced.ts),            *)
(*   - generateDiff / diffToChanges (client/src/lib/diff-utils.ts).        *)
(***************************************************************************)
EXTENDS Integers, Sequences, FiniteSets, TLC

VARIABLES
    documents,          \* MemStorage.documents : Map<number, Document>
    revisions,          \* MemStorage.revisions : Map<number, Revision>
    changes,            \* MemStorage.changes   : Map<number, ChangeRecord>
    currentDocumentId,  \* MemStorage.currentDocumentId
    currentRevisionId,  \* MemStorage.currentRevisionId
    currentChangeId,    \* MemStorage.currentChangeId
    clock,              \* the value new Date() returns
    res,                \* the last operation: its name, inputs, result and the storage methods it called
    issuedDocIds,       \* the ids createDocument returned, in call order
    inflight,           \* the concurrent PATCH status requests: where each one is
    gw,                 \* one getAIResponse request
    cons,               \* one multiProviderConsensus or enhancedAnalysisWithVerification call
    df                  \* one generateDiff / diffToChanges run

storeVars == <<documents, revisions, changes, currentDocumentId,
               currentRevisionId, currentChangeId, clock, res, issuedDocIds, inflight>>
vars == <<documents, revisions, changes, currentDocumentId,
          currentRevisionId, currentChangeId, clock, res, issuedDocIds, inflight,
          gw, cons, df>>

(***************************************************************************)
(* Bounds of the model.                                                    *)
(***************************************************************************)
MaxDocs == 2
MaxRevs == 1
MaxChanges == 1
MaxClock == 1

\* the value of a lookup that found nothing
Undefined == [undefined |-> TRUE]

\* The value of an object spread {...base, ...upd}: the keys of both, upd winning.
Merge(base, upd) ==
    [f \in (DOMAIN base) \cup (DOMAIN upd) |->
        IF f \in DOMAIN upd THEN upd[f] ELSE base[f]]

\* Partial<T>: the records of T cut down to any subset of the keys.
PartialOf(keys, full) == {[f \in D |-> r[f]] : D \in SUBSET keys, r \in full}

Put(map, k, v) == [x \in (DOMAIN map) \cup {k} |-> IF x = k THEN v ELSE map[x]]
Remove(map, k) == [x \in (DOMAIN map) \ {k} |-> map[x]]

Names == {"a.txt"}
Contents == {"x", "y"}
ChangeContents == {"x"}
ChangeTypes == {"addition", "modification"}
LineNumbers == {1}
\* status is a text column: a request body may carry any string
StatusValues == {"pending", "accepted", "rejected", "bogus"}
\* ids a request may name: the ones the store can hold and one it never holds
DocIds == 1..(MaxDocs + 1)
RevIds == 1..(MaxRevs + 1)
ChangeIds == 1..(MaxChanges + 1)

\* InsertDocument, InsertRevision, InsertChange (shared/schema.ts)
InsertDocuments == [name : Names, content : Contents]
InsertRevisions == [documentId : DocIds, content : Contents, isAccepted : {FALSE}]
InsertChanges ==
    [revisionId : RevIds, type : ChangeTypes, lineNumber : LineNumbers,
     content : ChangeContents, status : StatusValues]
\* Partial<InsertDocument>, Partial<InsertRevision>, Partial<InsertChange>:
\* the updates the model draws
UpdateDocumentData == PartialOf({"name", "content"}, InsertDocuments)
UpdateRevisionData == PartialOf({"content", "isAccepted"}, [content : Contents, isAccepted : BOOLEAN])
UpdateChangeData == PartialOf({"type", "status"}, [type : ChangeTypes, status : StatusValues])

\* two requests in flight at a time
Requests == {"r1", "r2"}

StoreIdle ==
    /\ documents = <<>>
    /\ revisions = <<>>
    /\ changes = <<>>
    /\ currentDocumentId = 1
    /\ currentRevisionId = 1
    /\ currentChangeId = 1
    /\ clock = 0
    /\ res = [op |-> "none"]
    /\ issuedDocIds = <<>>
    /\ inflight = [r \in Requests |-> [pc |-> "idle"]]

\* new Date(): time does not run backwards
Now(t) == t \in clock..MaxClock /\ clock' = t

(***************************************************************************)
(* MemStorage.  Each method is the state change it makes; the value it     *)
(* returns is the ...Ret operator next to it.                              *)
(***************************************************************************)
createDocumentRet(insertDocument, now) ==
    Merge(insertDocument,
          [id |-> currentDocumentId, createdAt |-> now, updatedAt |-> now])

\* createDocument without the increment of the counter
createDocument_noIncrement(insertDocument, now) ==
    /\ documents' = Put(documents, currentDocumentId, createDocumentRet(insertDocument, now))
    /\ currentDocumentId' = currentDocumentId
    /\ issuedDocIds' = Append(issuedDocIds, createDocumentRet(insertDocument, now).id)
    /\ UNCHANGED <<revisions, changes, currentRevisionId, currentChangeId>>

createDocument(insertDocument, now) ==
    /\ documents' = Put(documents, currentDocumentId, createDocumentRet(insertDocument, now))
    /\ currentDocumentId' = currentDocumentId + 1
    /\ issuedDocIds' = Append(issuedDocIds, createDocumentRet(insertDocument, now).id)
    /\ UNCHANGED <<revisions, changes, currentRevisionId, currentChangeId>>

\* an update of a document that leaves updatedAt as it was
updateDocumentRet_keepsUpdatedAt(id, updateData, now) ==
    IF id \notin DOMAIN documents THEN Undefined
    ELSE Merge(documents[id], updateData)

updateDocumentRet(id, updateData, now) ==
    IF id \notin DOMAIN documents THEN Undefined
    ELSE Merge(Merge(documents[id], updateData), [updatedAt |-> now])

updateDocument(id, updateData, now) ==
    /\ documents' = IF id \notin DOMAIN documents THEN documents
                    ELSE Put(documents, id, updateDocumentRet(id, updateData, now))
    /\ UNCHANGED <<revisions, changes, currentDocumentId, currentRevisionId,
                   currentChangeId, issuedDocIds>>

\* a delete that reports success whether or not the id was there
deleteDocumentRet_alwaysTrue(id) == TRUE

deleteDocumentRet(id) == id \in DOMAIN documents

\* a delete that also removes the revisions of the document
deleteDocument_cascade(id) ==
    /\ documents' = Remove(documents, id)
    /\ revisions' = [r \in {x \in DOMAIN revisions : revisions[x].documentId # id} |->
                       revisions[r]]
    /\ UNCHANGED <<changes, currentDocumentId, currentRevisionId,
                   currentChangeId, issuedDocIds>>

deleteDocument(id) ==
    /\ documents' = Remove(documents, id)
    /\ UNCHANGED <<revisions, changes, currentDocumentId, currentRevisionId,
                   currentChangeId, issuedDocIds>>

createRevisionRet(insertRevision, now) ==
    Merge(insertRevision, [id |-> currentRevisionId, createdAt |-> now])

createRevision(insertRevision, now) ==
    /\ revisions' = Put(revisions, currentRevisionId, createRevisionRet(insertRevision, now))
    /\ currentRevisionId' = currentRevisionId + 1
    /\ UNCHANGED <<documents, changes, currentDocumentId, currentChangeId, issuedDocIds>>

updateRevisionRet(id, updateData) ==
    IF id \notin DOMAIN revisions THEN Undefined
    ELSE Merge(revisions[id], updateData)

updateRevision(id, updateData) ==
    /\ revisions' = IF id \notin DOMAIN revisions THEN revisions
                    ELSE Put(revisions, id, updateRevisionRet(id, updateData))
    /\ UNCHANGED <<documents, changes, currentDocumentId, currentRevisionId,
                   currentChangeId, issuedDocIds>>

\* Array.from(map.values()).filter(...): the records of map with a key in
\* keys, in insertion order, which is the order of the ids
ValuesOf(map, keys) ==
    LET nth(k) == CHOOSE x \in keys : Cardinality({y \in keys : y < x}) = k - 1
    IN [k \in 1..Cardinality(keys) |-> map[nth(k)]]

getRevision(id) == IF id \in DOMAIN revisions THEN revisions[id] ELSE Undefined

getRevisionsByDocument(documentId) ==
    ValuesOf(revisions, {r \in DOMAIN revisions : revisions[r].documentId = documentId})

getChange(id) == IF id \in DOMAIN changes THEN changes[id] ELSE Undefined

getChangesByRevision(revisionId) ==
    ValuesOf(changes, {c \in DOMAIN changes : changes[c].revisionId = revisionId})

createChangeRet(insertChange, now) ==
    Merge(insertChange, [id |-> currentChangeId, createdAt |-> now])

createChange(insertChange, now) ==
    /\ changes' = Put(changes, currentChangeId, createChangeRet(insertChange, now))
    /\ currentChangeId' = currentChangeId + 1
    /\ UNCHANGED <<documents, revisions, currentDocumentId, currentRevisionId, issuedDocIds>>

\* an update that leaves a change alone once its status is not pending
updateChangeRet_keepsResolved(id, updateData) ==
    IF id \notin DOMAIN changes THEN Undefined
    ELSE IF changes[id].status # "pending" THEN changes[id]
    ELSE Merge(changes[id], updateData)

updateChangeRet(id, updateData) ==
    IF id \notin DOMAIN changes THEN Undefined
    ELSE Merge(changes[id], updateData)

updateChange(id, updateData) ==
    /\ changes' = IF id \notin DOMAIN changes THEN changes
                  ELSE Put(changes, id, updateChangeRet(id, updateData))
    /\ UNCHANGED <<documents, revisions, currentDocumentId, currentRevisionId,
                   currentChangeId, issuedDocIds>>

updateChangeStatusRet(id, status) == updateChangeRet(id, [status |-> status])

updateChangeStatus(id, status) == updateChange(id, [status |-> status])

(***************************************************************************)
(* Direct calls of the storage methods (the IStorage interface).           *)
(***************************************************************************)
CallCreateDocument ==
    \E insertDocument \in InsertDocuments, now \in 0..MaxClock :
        /\ currentDocumentId <= MaxDocs
        /\ Now(now)
        /\ createDocument(insertDocument, now)
        /\ res' = [op |-> "createDocument", ret |-> createDocumentRet(insertDocument, now)]

CallUpdateDocument ==
    \E id \in DocIds, updateData \in UpdateDocumentData, now \in 0..MaxClock :
        /\ Now(now)
        /\ updateDocument(id, updateData, now)
        /\ res' = [op |-> "updateDocument", id |-> id, updateData |-> updateData,
                   ret |-> updateDocumentRet(id, updateData, now)]

CallDeleteDocument ==
    \E id \in DocIds :
        /\ deleteDocument(id)
        /\ res' = [op |-> "deleteDocument", id |-> id, ret |-> deleteDocumentRet(id)]
        /\ UNCHANGED clock

CallUpdateRevision ==
    \E id \in RevIds, updateData \in UpdateRevisionData :
        /\ updateRevision(id, updateData)
        /\ res' = [op |-> "updateRevision", id |-> id, updateData |-> updateData,
                   ret |-> updateRevisionRet(id, updateData)]
        /\ UNCHANGED clock

CallUpdateChange ==
    \E id \in ChangeIds, updateData \in UpdateChangeData :
        /\ updateChange(id, updateData)
        /\ res' = [op |-> "updateChange", id |-> id, updateData |-> updateData,
                   ret |-> updateChangeRet(id, updateData)]
        /\ UNCHANGED clock

CallUpdateChangeStatus ==
    \E id \in ChangeIds, status \in {"accepted", "rejected"} :
        /\ updateChangeStatus(id, status)
        /\ res' = [op |-> "updateChangeStatus", id |-> id, status |-> status,
                   ret |-> updateChangeStatusRet(id, status)]
        /\ UNCHANGED clock

(***************************************************************************)
(* Request handlers (registerRoutes).  res records the response code and   *)
(* the storage methods the handler called.                                 *)
(***************************************************************************)
\* POST /api/documents/:id/revisions
PostRevision ==
    \E documentId \in DocIds, body \in [content : Contents, isAccepted : {FALSE}],
       now \in 0..MaxClock :
        /\ currentRevisionId <= MaxRevs
        /\ Now(now)
        /\ createRevision(Merge(body, [documentId |-> documentId]), now)
        /\ res' = [op |-> "POST revisions", code |-> 201, calls |-> <<"createRevision">>]

\* POST /api/revisions/:id/changes
PostChange ==
    \E revisionId \in RevIds, body \in InsertChanges, now \in 0..MaxClock :
        /\ currentChangeId <= MaxChanges
        /\ Now(now)
        /\ createChange(Merge(body, [revisionId |-> revisionId]), now)
        /\ res' = [op |-> "POST changes", code |-> 201, calls |-> <<"createChange">>]

\* a status check that also lets "pending" through
ValidStatus_lax(status) == status \in {"accepted", "rejected", "pending"}

\* the check of the status value in PATCH /api/changes/:id/status
ValidStatus(status) == status \in {"accepted", "rejected"}

\* PATCH /api/changes/:id/status
PatchChangeStatus ==
    \E id \in ChangeIds, status \in StatusValues :
        /\ UNCHANGED clock
        /\ IF ~ValidStatus(status)
           THEN /\ res' = [op |-> "PATCH status", id |-> id, status |-> status,
                           code |-> 400, calls |-> <<>>]
                /\ UNCHANGED <<documents, revisions, changes, currentDocumentId,
                               currentRevisionId, currentChangeId, issuedDocIds>>
           ELSE /\ updateChangeStatus(id, status)
                /\ res' = [op |-> "PATCH status", id |-> id, status |-> status,
                           code |-> IF updateChangeStatusRet(id, status) = Undefined
                                    THEN 404 ELSE 200,
                           calls |-> <<"updateChangeStatus">>]

(***************************************************************************)
(* Concurrent PATCH /api/changes/:id/status requests.  The handler runs    *)
(* from its start through the call of storage.updateChangeStatus, whose    *)
(* body has no await, in one piece; it is suspended at the await of the    *)
(* returned promise and answers when it is resumed.                        *)
(***************************************************************************)
\* the number of requests whose storage call has run
Executed == Cardinality({r \in Requests : "seq" \in DOMAIN inflight[r]})

\* the handler up to its await
PatchStart(r) ==
    \E id \in 1..(MaxChanges + 2), status \in StatusValues :
        /\ inflight[r].pc = "idle"
        /\ UNCHANGED <<clock, res>>
        /\ IF ~ValidStatus(status)
           THEN /\ inflight' = [inflight EXCEPT ![r] =
                                  [pc |-> "responded", id |-> id, status |-> status,
                                   code |-> 400]]
                /\ UNCHANGED <<documents, revisions, changes, currentDocumentId,
                               currentRevisionId, currentChangeId, issuedDocIds>>
           ELSE /\ updateChangeStatus(id, status)
                /\ inflight' = [inflight EXCEPT ![r] =
                                  [pc |-> "awaiting", id |-> id, status |-> status,
                                   change |-> updateChangeStatusRet(id, status),
                                   seq |-> Executed + 1]]

\* the handler from its await on
PatchRespond(r) ==
    /\ inflight[r].pc = "awaiting"
    /\ inflight' = [inflight EXCEPT ![r] =
                      [pc |-> "responded", id |-> inflight[r].id,
                       status |-> inflight[r].status, seq |-> inflight[r].seq,
                       code |-> IF inflight[r].change = Undefined THEN 404 ELSE 200]]
    /\ UNCHANGED <<documents, revisions, changes, currentDocumentId, currentRevisionId,
                   currentChangeId, issuedDocIds, clock, res>>

(***************************************************************************)
(* POST /api/documents/:id/ai-edit.  The repository has two route files    *)
(* with a handler for it: the one that imports ./ai-services (PostAiEdit)  *)
(* and the one that imports ./ai-services-enhanced (PostAiEditEnhanced).   *)
(* performDevelopmentalEdit / performLineEdit return whatever JSON the     *)
(* provider answered, or throw.                                            *)
(***************************************************************************)
MaxProposed == 2

ProposedLines == {1, 2}
\* the entries of the changes array of an EditResponse (originalContent and
\* explanation are copied along with content and are left out)
ProposedChanges == [type : ChangeTypes, lineNumber : ProposedLines, content : ChangeContents]
\* interface EditResponse
EditResponses ==
    [editedContent : Contents,
     changes : UNION {[1..n -> ProposedChanges] : n \in 0..MaxProposed},
     summary : {"s"}]
\* the JSON object {} (what an empty OpenAI answer is parsed to)
EmptyObject == <<>>
\* what the edit service does: throw, or return the parsed JSON
EditServiceReplies ==
    {[kind |-> "throw"]} \cup {[kind |-> "value", value |-> v] : v \in EditResponses \cup {EmptyObject}}
\* obj.field, undefined when the object has no such field
Field(obj, field) == IF field \in DOMAIN obj THEN obj[field] ELSE Undefined
\* the request bodies the model draws
AiEditBodies ==
    [instructions : {"", "i"}, editType : {"developmental", "line", "bogus"},
     provider : {"openai", "anthropic"}]
\* Math.random().toString(36).substr(2, 9)
RandomIds == {"r1", "r2"}
\* the times of the successive new Date() calls of one handler run
Times(n) == {t \in [1..n -> clock..MaxClock] : \A k \in 1..(n - 1) : t[k] <= t[k + 1]}
\* nothing is stored
StoreUnchanged ==
    UNCHANGED <<documents, revisions, changes, currentDocumentId,
                currentRevisionId, currentChangeId, issuedDocIds>>

\* the handler of the route file that imports ./ai-services
PostAiEdit ==
    \E id \in DocIds, body \in AiEditBodies :
        LET answer(code, calls) ==
                [op |-> "POST ai-edit", id |-> id, code |-> code, calls |-> calls]
        IN /\ currentRevisionId <= MaxRevs
           /\ IF body.instructions = "" \/ body.editType \notin {"developmental", "line"}
                 \/ body.provider \notin {"openai", "google"}
              THEN /\ res' = answer(400, <<>>)
                   /\ StoreUnchanged /\ UNCHANGED clock
              ELSE IF id \notin DOMAIN documents
              THEN /\ res' = answer(404, <<"getDocument">>)
                   /\ StoreUnchanged /\ UNCHANGED clock
              ELSE \E reply \in EditServiceReplies :
                     IF reply.kind = "throw" \/ "changes" \notin DOMAIN reply.value
                     THEN /\ res' = answer(500, <<"getDocument">>) @@ [reply |-> reply]
                          /\ StoreUnchanged /\ UNCHANGED clock
                     ELSE \E ids \in [1..Len(reply.value.changes) -> RandomIds],
                             now \in 0..MaxClock :
                            /\ Now(now)
                            /\ createRevision(
                                  [documentId |-> id,
                                   content |-> reply.value.editedContent,
                                   changes |-> [k \in 1..Len(reply.value.changes) |->
                                       [id |-> ids[k],
                                        type |-> reply.value.changes[k].type,
                                        lineNumber |-> reply.value.changes[k].lineNumber,
                                        content |-> reply.value.changes[k].content,
                                        status |-> "pending"]],
                                   isAccepted |-> FALSE], now)
                            /\ res' = answer(200, <<"getDocument", "createRevision">>)
                                         @@ [reply |-> reply]

\* the handler of the route file that imports ./ai-services-enhanced
PostAiEditEnhanced ==
    \E id \in DocIds, editType \in {"developmental", "line"} :
        LET answer(code, calls) ==
                [op |-> "POST ai-edit", id |-> id, code |-> code, calls |-> calls]
        IN /\ currentRevisionId <= MaxRevs
           /\ IF id \notin DOMAIN documents
              THEN /\ res' = answer(404, <<"getDocument">>)
                   /\ StoreUnchanged /\ UNCHANGED clock
              ELSE \E reply \in EditServiceReplies :
                     IF reply.kind = "throw"
                     THEN /\ res' = answer(500, <<"getDocument">>) @@ [reply |-> reply]
                          /\ StoreUnchanged /\ UNCHANGED clock
                     ELSE LET iterable == "changes" \in DOMAIN reply.value
                              proposed == IF iterable THEN reply.value.changes ELSE <<>>
                              n == Len(proposed)
                          IN \E times \in Times(n + 1) :
                               LET revision ==
                                       [documentId |-> id,
                                        content |-> Field(reply.value, "editedContent"),
                                        summary |-> Field(reply.value, "summary"),
                                        changes |-> Field(reply.value, "changes"),
                                        isAccepted |-> FALSE,
                                        id |-> currentRevisionId,
                                        createdAt |-> times[1]]
                                   created ==
                                       [k \in 1..n |->
                                           [revisionId |-> revision.id,
                                            type |-> proposed[k].type,
                                            lineNumber |-> proposed[k].lineNumber,
                                            content |-> proposed[k].content,
                                            status |-> "pending",
                                            id |-> currentChangeId + k - 1,
                                            createdAt |-> times[k + 1]]]
                               IN /\ revisions' = Put(revisions, revision.id, revision)
                                  /\ currentRevisionId' = currentRevisionId + 1
                                  /\ changes' =
                                       [c \in (DOMAIN changes) \cup {created[k].id : k \in 1..n} |->
                                           IF c \in DOMAIN changes THEN changes[c]
                                           ELSE created[c - currentChangeId + 1]]
                                  /\ currentChangeId' = currentChangeId + n
                                  /\ clock' = times[n + 1]
                                  /\ UNCHANGED <<documents, currentDocumentId, issuedDocIds>>
                                  /\ res' = (IF ~iterable
                                             THEN answer(500, <<"getDocument", "createRevision">>)
                                             ELSE answer(200, <<"getDocument", "createRevision">>
                                                              \o [k \in 1..n |-> "createChange"]))
                                            @@ [reply |-> reply]

(***************************************************************************)
(* The AI provider gateway (server/ai-providers.ts).  A vendor's response  *)
(* text is a sequence of tokens: the opening fence, the closing fence,     *)
(* white space, two JSON values and a piece of text that is not JSON.      *)
(***************************************************************************)
MaxRespLen == 2

\* the three backquotes followed by json, and the three backquotes
FenceJson == "fence-json"
Fence == "fence"
WS == " "
JsonValues == {"{}", "[]"}
Tokens == {FenceJson, Fence, WS, "x"} \cup JsonValues
RespTexts == UNION {[1..n -> Tokens] : n \in 0..MaxRespLen}

\* type AIProvider, and a provider string outside it
Providers == {"openai", "google", "anthropic", "cohere", "azure",
              "huggingface", "perplexity", "other"}

DropLeadingWS(t) ==
    LET n == IF \E k \in 1..Len(t) : t[k] # WS
             THEN (CHOOSE k \in 1..Len(t) : t[k] # WS /\ \A m \in 1..(k - 1) : t[m] = WS) - 1
             ELSE Len(t)
    IN SubSeq(t, n + 1, Len(t))

\* a replace whose pattern has only the opening-fence alternative
StripFences_openingOnly(t) ==
    IF Len(t) > 0 /\ t[1] = FenceJson THEN DropLeadingWS(Tail(t)) ELSE t

\* responseText.replace(re, '') with re = start-of-text opening fence and white
\* space, or closing fence and white space up to the end of the text
StripFences(t) ==
    LET a == IF Len(t) > 0 /\ t[1] = FenceJson THEN DropLeadingWS(Tail(t)) ELSE t
        closing == {k \in 1..Len(a) : a[k] = Fence /\ \A m \in (k + 1)..Len(a) : a[m] = WS}
    IN IF closing = {} THEN a
       ELSE SubSeq(a, 1, (CHOOSE k \in closing : TRUE) - 1)

\* JSON.parse: one JSON value, white space allowed around it
JsonParse(t) ==
    LET body == {k \in 1..Len(t) : t[k] # WS}
    IN IF Cardinality(body) = 1 /\ \A k \in body : t[k] \in JsonValues
       THEN [ok |-> TRUE, value |-> t[CHOOSE k \in body : TRUE]]
       ELSE [ok |-> FALSE]

\* parseAIResponseJSON: the parsed value, or the parse error
parseAIResponseJSON(responseText) ==
    LET parsed == JsonParse(StripFences(responseText))
    IN IF parsed.ok THEN [kind |-> "value", value |-> parsed.value]
       ELSE [kind |-> "error", error |-> "Failed to parse AI response as JSON"]

\* What a vendor call can do: throw, answer without content, answer with text.
VendorReplies ==
    {[kind |-> "throw"], [kind |-> "none"]} \cup {[kind |-> "text", text |-> t] : t \in RespTexts}

VendorError(provider) == [kind |-> "error", error |-> "vendor call failed"]

\* the cases of the switch that call a vendor: azure and default only throw
VendorCalled(provider) == provider \notin {"azure", "other"}

\* The body of the try block: one case of the switch on provider.
ProviderCase(provider, reply) ==
    CASE provider = "openai" ->
           IF reply.kind = "throw" THEN VendorError(provider)
           ELSE IF reply.kind = "none" \/ reply.text = <<>>
                THEN parseAIResponseJSON(<<"{}">>)
                ELSE parseAIResponseJSON(reply.text)
      [] provider = "google" ->
           IF reply.kind # "text" THEN VendorError(provider)
           ELSE parseAIResponseJSON(reply.text)
      [] provider = "anthropic" ->
           IF reply.kind = "throw" THEN VendorError(provider)
           ELSE IF reply.kind = "none" THEN parseAIResponseJSON(<<"{}">>)
                ELSE parseAIResponseJSON(reply.text)
      [] provider = "cohere" ->
           IF reply.kind # "text" THEN VendorError(provider)
           ELSE parseAIResponseJSON(reply.text)
      [] provider = "azure" ->
           [kind |-> "error", error |-> "Azure OpenAI provider requires proper configuration"]
      [] provider = "huggingface" ->
           IF reply.kind = "throw" THEN VendorError(provider)
           ELSE IF reply.kind = "none" \/ reply.text = <<>>
                THEN parseAIResponseJSON(<<"{}">>)
                ELSE parseAIResponseJSON(reply.text)
      [] provider = "perplexity" ->
           IF reply.kind # "text" THEN VendorError(provider)
           ELSE parseAIResponseJSON(reply.text)
      [] OTHER -> [kind |-> "error", error |-> "Unsupported AI provider"]

\* a fallback test that does not look at GOOGLE_AI_API_KEY
ShouldFallback_ignoresKey(provider, googleKey) == provider # "google"

\* a fallback test that forgets to exclude google itself
ShouldFallback_anyProvider(provider, googleKey) == googleKey

\* the test of the catch block: provider !== 'google' && process.env.GOOGLE_AI_API_KEY
ShouldFallback(provider, googleKey) == provider # "google" /\ googleKey

GwIdle == gw \in [pc : {"idle"}, googleKey : {FALSE}]
GwInit == gw \in [pc : {"idle"}, googleKey : BOOLEAN]

\* a caller invokes getAIResponse(prompt, provider)
GwRequest ==
    \E provider \in Providers :
        /\ gw.pc = "idle"
        /\ gw' = [pc |-> "calling", googleKey |-> gw.googleKey, requested |-> provider,
                  provider |-> provider, attempts |-> <<>>]

\* one execution of the body of getAIResponse: the try block for gw.provider,
\* and on a failure the catch block
GwAttempt ==
    \E reply \in VendorReplies :
        LET outcome == ProviderCase(gw.provider, reply)
            attempts == Append(gw.attempts,
                               [provider |-> gw.provider,
                                reply |-> IF VendorCalled(gw.provider) THEN reply
                                          ELSE [kind |-> "uncalled"],
                                outcome |-> outcome])
        IN /\ gw.pc = "calling"
           /\ gw' = IF outcome.kind = "value"
                    THEN [gw EXCEPT !.pc = "returned", !.attempts = attempts] @@ [out |-> outcome]
                    ELSE IF ShouldFallback(gw.provider, gw.googleKey)
                         THEN [gw EXCEPT !.provider = "google", !.attempts = attempts]
                         ELSE [gw EXCEPT !.pc = "threw", !.attempts = attempts] @@ [out |-> outcome]

\* t between an opening fence and a closing fence, white space (a, b, c)
\* after the opening fence, before and after the closing fence
Wrap(t, a, b, c) == <<FenceJson>> \o a \o t \o b \o <<Fence>> \o c

NextGateway ==
    \/ (GwRequest /\ UNCHANGED <<storeVars, cons, df>>)
    \/ (GwAttempt /\ UNCHANGED <<storeVars, cons, df>>)

(***************************************************************************)
(* multiProviderConsensus (server/ai-services-enhanced.ts).  Its           *)
(* getAIResponse is the one of that file: the same switch on the provider, *)
(* without the catch block.                                                *)
(***************************************************************************)
MaxProviders == 3

ConsProviders == {"openai", "google", "anthropic"}
ProviderLists == UNION {[1..n -> ConsProviders] : n \in 0..MaxProviders}
\* the values analysisFunction can return
Analyses == {"a1", "a2"}

AllFailed == [kind |-> "error", error |-> "All AI providers failed to complete analysis"]

\* the end of multiProviderConsensus that hands back the first analysis
\* whenever there is one
consensusResult_pickFirst(analyses, reply) ==
    IF Len(analyses) = 0 THEN [out |-> AllFailed, synth |-> <<>>]
    ELSE [out |-> [kind |-> "value", value |-> analyses[1].analysis], synth |-> <<>>]

\* the end of multiProviderConsensus that answers an empty result when no
\* provider succeeded
consensusResult_emptyOnFailure(analyses, reply) ==
    IF Len(analyses) = 0 THEN [out |-> [kind |-> "value", value |-> "{}"], synth |-> <<>>]
    ELSE IF Len(analyses) = 1
         THEN [out |-> [kind |-> "value", value |-> analyses[1].analysis], synth |-> <<>>]
         ELSE [out |-> ProviderCase("openai", reply),
               synth |-> <<[provider |-> "openai", input |-> analyses,
                            outcome |-> ProviderCase("openai", reply)]>>]

\* the end of multiProviderConsensus that asks for a synthesis of a single
\* analysis too
consensusResult_alwaysSynthesize(analyses, reply) ==
    IF Len(analyses) = 0 THEN [out |-> AllFailed, synth |-> <<>>]
    ELSE [out |-> ProviderCase("openai", reply),
          synth |-> <<[provider |-> "openai", input |-> analyses,
                            outcome |-> ProviderCase("openai", reply)]>>]

\* multiProviderConsensus after the loop: the result or the error, and the
\* synthesis calls made (reply is what the vendor does in a synthesis call)
consensusResult(analyses, reply) ==
    IF Len(analyses) = 0 THEN [out |-> AllFailed, synth |-> <<>>]
    ELSE IF Len(analyses) = 1
         THEN [out |-> [kind |-> "value", value |-> analyses[1].analysis], synth |-> <<>>]
         ELSE [out |-> ProviderCase("openai", reply),
               synth |-> <<[provider |-> "openai", input |-> analyses,
                            outcome |-> ProviderCase("openai", reply)]>>]

ConsIdle == cons = [pc |-> "idle"]

\* a caller invokes multiProviderConsensus(content, analysisType, analysisFunction, providers)
ConsCall ==
    \E providers \in ProviderLists :
        /\ cons.pc = "idle"
        /\ cons' = [pc |-> "loop", providers |-> providers, i |-> 1,
                    log |-> <<>>, analyses |-> <<>>]

\* one iteration of the for loop: analysisFunction returns an analysis or throws
ConsAnalyze ==
    /\ cons.pc = "loop"
    /\ cons.i <= Len(cons.providers)
    /\ LET provider == cons.providers[cons.i]
       IN \/ \E analysis \in Analyses :
                cons' = [cons EXCEPT
                            !.i = @ + 1,
                            !.log = Append(@, [provider |-> provider, ok |-> TRUE,
                                               analysis |-> analysis]),
                            !.analyses = Append(@, [provider |-> provider,
                                                    analysis |-> analysis])]
          \/ cons' = [cons EXCEPT
                         !.i = @ + 1,
                         !.log = Append(@, [provider |-> provider, ok |-> FALSE,
                                            analysis |-> "none"])]

\* the code after the loop
ConsFinish ==
    \E reply \in VendorReplies :
        LET r == consensusResult(cons.analyses, reply)
        IN /\ cons.pc = "loop"
           /\ cons.i > Len(cons.providers)
           /\ cons' = [pc |-> IF r.out.kind = "value" THEN "returned" ELSE "threw",
                       providers |-> cons.providers, i |-> cons.i, log |-> cons.log,
                       analyses |-> cons.analyses, synth |-> r.synth, out |-> r.out]

NextConsensus ==
    \/ (ConsCall /\ UNCHANGED <<storeVars, gw, df>>)
    \/ (ConsAnalyze /\ UNCHANGED <<storeVars, gw, df>>)
    \/ (ConsFinish /\ UNCHANGED <<storeVars, gw, df>>)

\* enhancedAnalysisWithVerification.  The verifier's answer is a JSON object,
\* with or without a metadata field of its own.
AnalysisTypes == {"pacing"}
VerifiedAnalyses == [verificationNotes : {"n1", "n2"}]
                        \cup [verificationNotes : {"n1", "n2"},
                              metadata : {[primaryProvider |-> "verifier's",
                                           verificationProvider |-> "verifier's",
                                           timestamp |-> 0]}]

\* the returned object with the spread after the metadata: the verifier's
\* metadata wins
VerifiedResult_verifierWins(verifiedAnalysis, primaryProvider, verificationProvider, analysisType, timestamp) ==
    Merge([metadata |-> [primaryProvider |-> primaryProvider,
                         verificationProvider |-> verificationProvider,
                         analysisType |-> analysisType,
                         timestamp |-> timestamp]],
          verifiedAnalysis)

\* the returned object: {...verifiedAnalysis, metadata: {...}}
VerifiedResult(verifiedAnalysis, primaryProvider, verificationProvider, analysisType, timestamp) ==
    Merge(verifiedAnalysis,
          [metadata |-> [primaryProvider |-> primaryProvider,
                         verificationProvider |-> verificationProvider,
                         analysisType |-> analysisType,
                         timestamp |-> timestamp]])

\* enhancedAnalysisWithVerification(content, analysisType, analysisFunction,
\* primaryProvider, verificationProvider) is called
VerCall ==
    \E primaryProvider \in ConsProviders, verificationProvider \in ConsProviders,
       analysisType \in AnalysisTypes :
        /\ cons.pc = "idle"
        /\ cons' = [pc |-> "analysing", primaryProvider |-> primaryProvider,
                    verificationProvider |-> verificationProvider,
                    analysisType |-> analysisType, calls |-> <<>>]
        /\ UNCHANGED storeVars

\* await analysisFunction(content, primaryProvider): a value, or a throw that
\* leaves the function
VerAnalyse ==
    \E outcome \in {[kind |-> "error", error |-> "analysis failed"]}
                      \cup {[kind |-> "value", value |-> a] : a \in Analyses} :
        LET calls == Append(cons.calls, [fn |-> "analysisFunction",
                                         provider |-> cons.primaryProvider,
                                         outcome |-> outcome])
        IN /\ cons.pc = "analysing"
           /\ cons' = IF outcome.kind = "value"
                      THEN [cons EXCEPT !.pc = "verifying", !.calls = calls]
                      ELSE [cons EXCEPT !.pc = "threw", !.calls = calls] @@ [out |-> outcome]
           /\ UNCHANGED storeVars

\* await crossVerifyAnalysis(...), which is getAIResponse with the
\* verification provider, and the return statement
VerVerify ==
    \E outcome \in {[kind |-> "error", error |-> "verification failed"]}
                      \cup {[kind |-> "value", value |-> v] : v \in VerifiedAnalyses},
       now \in 0..MaxClock :
        LET calls == Append(cons.calls, [fn |-> "crossVerifyAnalysis",
                                         provider |-> cons.verificationProvider,
                                         input |-> cons.calls[1].outcome.value,
                                         outcome |-> outcome])
        IN /\ cons.pc = "verifying"
           /\ IF outcome.kind = "value"
              THEN /\ Now(now)
                   /\ cons' = [cons EXCEPT !.pc = "returned", !.calls = calls]
                                 @@ [out |-> [kind |-> "value",
                                              value |-> VerifiedResult(outcome.value,
                                                  cons.primaryProvider,
                                                  cons.verificationProvider,
                                                  cons.analysisType, now)]]
              ELSE /\ UNCHANGED clock
                   /\ cons' = [cons EXCEPT !.pc = "threw", !.calls = calls] @@ [out |-> outcome]
           /\ UNCHANGED <<documents, revisions, changes, currentDocumentId,
                          currentRevisionId, currentChangeId, res, issuedDocIds, inflight>>

NextVerification ==
    \/ (VerCall /\ UNCHANGED <<gw, df>>)
    \/ (VerAnalyse /\ UNCHANGED <<gw, df>>)
    \/ (VerVerify /\ UNCHANGED <<gw, df>>)

(***************************************************************************)
(* The line differ (client/src/lib/diff-utils.ts).  A text is a sequence   *)
(* of characters, one of them the newline; a line is a sequence of         *)
(* characters without a newline.  Indices are the 0-based indices of the   *)
(* code.                                                                   *)
(***************************************************************************)
MaxTextLen == 3

NL == "\n"
Chars == {"a", "b", NL}
Texts == UNION {[1..n -> Chars] : n \in 0..MaxTextLen}

\* what indexing an array past its end gives: equal to no line
UndefLine == <<"undefined">>

\* text.split('\n')
RECURSIVE Split(_)
Split(text) ==
    IF \A k \in 1..Len(text) : text[k] # NL THEN <<text>>
    ELSE LET k == CHOOSE n \in 1..Len(text) :
                      text[n] = NL /\ \A m \in 1..(n - 1) : text[m] # NL
         IN <<SubSeq(text, 1, k - 1)>> \o Split(SubSeq(text, k + 1, Len(text)))

\* lines[index]
At(lines, index) == IF index < Len(lines) THEN lines[index + 1] ELSE UndefLine

\* the loop body without the look-ahead on the original side
DiffStep_noOriginalLookahead(originalLines, modifiedLines, originalIndex, modifiedIndex) ==
    LET originalLine == At(originalLines, originalIndex)
        modifiedLine == At(modifiedLines, modifiedIndex)
        nextModifiedLine == At(modifiedLines, modifiedIndex + 1)
    IN IF originalIndex >= Len(originalLines)
       THEN [entry |-> [type |-> "insert", modifiedIndex |-> modifiedIndex,
                        content |-> modifiedLine],
             originalIndex |-> originalIndex, modifiedIndex |-> modifiedIndex + 1]
       ELSE IF modifiedIndex >= Len(modifiedLines)
       THEN [entry |-> [type |-> "delete", originalIndex |-> originalIndex,
                        content |-> originalLine],
             originalIndex |-> originalIndex + 1, modifiedIndex |-> modifiedIndex]
       ELSE IF originalLine = modifiedLine
       THEN [entry |-> [type |-> "equal", originalIndex |-> originalIndex,
                        modifiedIndex |-> modifiedIndex, content |-> originalLine],
             originalIndex |-> originalIndex + 1, modifiedIndex |-> modifiedIndex + 1]
       ELSE IF nextModifiedLine = originalLine
       THEN [entry |-> [type |-> "insert", modifiedIndex |-> modifiedIndex,
                        content |-> modifiedLine],
             originalIndex |-> originalIndex, modifiedIndex |-> modifiedIndex + 1]
       ELSE [entry |-> [type |-> "replace", originalIndex |-> originalIndex,
                        modifiedIndex |-> modifiedIndex, content |-> modifiedLine,
                        originalContent |-> originalLine],
             originalIndex |-> originalIndex + 1, modifiedIndex |-> modifiedIndex + 1]

\* the loop body without the look-ahead on the modified side
DiffStep_noModifiedLookahead(originalLines, modifiedLines, originalIndex, modifiedIndex) ==
    LET originalLine == At(originalLines, originalIndex)
        modifiedLine == At(modifiedLines, modifiedIndex)
        nextOriginalLine == At(originalLines, originalIndex + 1)
    IN IF originalIndex >= Len(originalLines)
       THEN [entry |-> [type |-> "insert", modifiedIndex |-> modifiedIndex,
                        content |-> modifiedLine],
             originalIndex |-> originalIndex, modifiedIndex |-> modifiedIndex + 1]
       ELSE IF modifiedIndex >= Len(modifiedLines)
       THEN [entry |-> [type |-> "delete", originalIndex |-> originalIndex,
                        content |-> originalLine],
             originalIndex |-> originalIndex + 1, modifiedIndex |-> modifiedIndex]
       ELSE IF originalLine = modifiedLine
       THEN [entry |-> [type |-> "equal", originalIndex |-> originalIndex,
                        modifiedIndex |-> modifiedIndex, content |-> originalLine],
             originalIndex |-> originalIndex + 1, modifiedIndex |-> modifiedIndex + 1]
       ELSE IF nextOriginalLine = modifiedLine
       THEN [entry |-> [type |-> "delete", originalIndex |-> originalIndex,
                        content |-> originalLine],
             originalIndex |-> originalIndex + 1, modifiedIndex |-> modifiedIndex]
       ELSE [entry |-> [type |-> "replace", originalIndex |-> originalIndex,
                        modifiedIndex |-> modifiedIndex, content |-> modifiedLine,
                        originalContent |-> originalLine],
             originalIndex |-> originalIndex + 1, modifiedIndex |-> modifiedIndex + 1]

\* the loop body with the look-ahead on the modified side tried first
DiffStep_lookaheadsSwapped(originalLines, modifiedLines, originalIndex, modifiedIndex) ==
    LET originalLine == At(originalLines, originalIndex)
        modifiedLine == At(modifiedLines, modifiedIndex)
        nextOriginalLine == At(originalLines, originalIndex + 1)
        nextModifiedLine == At(modifiedLines, modifiedIndex + 1)
    IN IF originalIndex >= Len(originalLines)
       THEN [entry |-> [type |-> "insert", modifiedIndex |-> modifiedIndex,
                        content |-> modifiedLine],
             originalIndex |-> originalIndex, modifiedIndex |-> modifiedIndex + 1]
       ELSE IF modifiedIndex >= Len(modifiedLines)
       THEN [entry |-> [type |-> "delete", originalIndex |-> originalIndex,
                        content |-> originalLine],
             originalIndex |-> originalIndex + 1, modifiedIndex |-> modifiedIndex]
       ELSE IF originalLine = modifiedLine
       THEN [entry |-> [type |-> "equal", originalIndex |-> originalIndex,
                        modifiedIndex |-> modifiedIndex, content |-> originalLine],
             originalIndex |-> originalIndex + 1, modifiedIndex |-> modifiedIndex + 1]
       ELSE IF nextModifiedLine = originalLine
       THEN [entry |-> [type |-> "insert", modifiedIndex |-> modifiedIndex,
                        content |-> modifiedLine],
             originalIndex |-> originalIndex, modifiedIndex |-> modifiedIndex + 1]
       ELSE IF nextOriginalLine = modifiedLine
       THEN [entry |-> [type |-> "delete", originalIndex |-> originalIndex,
                        content |-> originalLine],
             originalIndex |-> originalIndex + 1, modifiedIndex |-> modifiedIndex]
       ELSE [entry |-> [type |-> "replace", originalIndex |-> originalIndex,
                        modifiedIndex |-> modifiedIndex, content |-> modifiedLine,
                        originalContent |-> originalLine],
             originalIndex |-> originalIndex + 1, modifiedIndex |-> modifiedIndex + 1]

\* the loop body whose replace entry has the modified line as originalContent
DiffStep_replaceLosesOriginal(originalLines, modifiedLines, originalIndex, modifiedIndex) ==
    LET originalLine == At(originalLines, originalIndex)
        modifiedLine == At(modifiedLines, modifiedIndex)
        nextOriginalLine == At(originalLines, originalIndex + 1)
        nextModifiedLine == At(modifiedLines, modifiedIndex + 1)
    IN IF originalIndex >= Len(originalLines)
       THEN [entry |-> [type |-> "insert", modifiedIndex |-> modifiedIndex,
                        content |-> modifiedLine],
             originalIndex |-> originalIndex, modifiedIndex |-> modifiedIndex + 1]
       ELSE IF modifiedIndex >= Len(modifiedLines)
       THEN [entry |-> [type |-> "delete", originalIndex |-> originalIndex,
                        content |-> originalLine],
             originalIndex |-> originalIndex + 1, modifiedIndex |-> modifiedIndex]
       ELSE IF originalLine = modifiedLine
       THEN [entry |-> [type |-> "equal", originalIndex |-> originalIndex,
                        modifiedIndex |-> modifiedIndex, content |-> originalLine],
             originalIndex |-> originalIndex + 1, modifiedIndex |-> modifiedIndex + 1]
       ELSE IF nextOriginalLine = modifiedLine
       THEN [entry |-> [type |-> "delete", originalIndex |-> originalIndex,
                        content |-> originalLine],
             originalIndex |-> originalIndex + 1, modifiedIndex |-> modifiedIndex]
       ELSE IF nextModifiedLine = originalLine
       THEN [entry |-> [type |-> "insert", modifiedIndex |-> modifiedIndex,
                        content |-> modifiedLine],
             originalIndex |-> originalIndex, modifiedIndex |-> modifiedIndex + 1]
       ELSE [entry |-> [type |-> "replace", originalIndex |-> originalIndex,
                        modifiedIndex |-> modifiedIndex, content |-> modifiedLine,
                        originalContent |-> modifiedLine],
             originalIndex |-> originalIndex + 1, modifiedIndex |-> modifiedIndex + 1]

\* the loop body whose replace branch does not advance the cursors
DiffStep_replaceKeepsCursors(originalLines, modifiedLines, originalIndex, modifiedIndex) ==
    LET originalLine == At(originalLines, originalIndex)
        modifiedLine == At(modifiedLines, modifiedIndex)
        nextOriginalLine == At(originalLines, originalIndex + 1)
        nextModifiedLine == At(modifiedLines, modifiedIndex + 1)
    IN IF originalIndex >= Len(originalLines)
       THEN [entry |-> [type |-> "insert", modifiedIndex |-> modifiedIndex,
                        content |-> modifiedLine],
             originalIndex |-> originalIndex, modifiedIndex |-> modifiedIndex + 1]
       ELSE IF modifiedIndex >= Len(modifiedLines)
       THEN [entry |-> [type |-> "delete", originalIndex |-> originalIndex,
                        content |-> originalLine],
             originalIndex |-> originalIndex + 1, modifiedIndex |-> modifiedIndex]
       ELSE IF originalLine = modifiedLine
       THEN [entry |-> [type |-> "equal", originalIndex |-> originalIndex,
                        modifiedIndex |-> modifiedIndex, content |-> originalLine],
             originalIndex |-> originalIndex + 1, modifiedIndex |-> modifiedIndex + 1]
       ELSE IF nextOriginalLine = modifiedLine
       THEN [entry |-> [type |-> "delete", originalIndex |-> originalIndex,
                        content |-> originalLine],
             originalIndex |-> originalIndex + 1, modifiedIndex |-> modifiedIndex]
       ELSE IF nextModifiedLine = originalLine
       THEN [entry |-> [type |-> "insert", modifiedIndex |-> modifiedIndex,
                        content |-> modifiedLine],
             originalIndex |-> originalIndex, modifiedIndex |-> modifiedIndex + 1]
       ELSE [entry |-> [type |-> "replace", originalIndex |-> originalIndex,
                        modifiedIndex |-> modifiedIndex, content |-> modifiedLine,
                        originalContent |-> originalLine],
             originalIndex |-> originalIndex, modifiedIndex |-> modifiedIndex]

\* One iteration of the while loop of generateDiff: the entry pushed and the
\* two cursors after it.
DiffStep(originalLines, modifiedLines, originalIndex, modifiedIndex) ==
    LET originalLine == At(originalLines, originalIndex)
        modifiedLine == At(modifiedLines, modifiedIndex)
        nextOriginalLine == At(originalLines, originalIndex + 1)
        nextModifiedLine == At(modifiedLines, modifiedIndex + 1)
    IN IF originalIndex >= Len(originalLines)
       THEN [entry |-> [type |-> "insert", modifiedIndex |-> modifiedIndex,
                        content |-> modifiedLine],
             originalIndex |-> originalIndex, modifiedIndex |-> modifiedIndex + 1]
       ELSE IF modifiedIndex >= Len(modifiedLines)
       THEN [entry |-> [type |-> "delete", originalIndex |-> originalIndex,
                        content |-> originalLine],
             originalIndex |-> originalIndex + 1, modifiedIndex |-> modifiedIndex]
       ELSE IF originalLine = modifiedLine
       THEN [entry |-> [type |-> "equal", originalIndex |-> originalIndex,
                        modifiedIndex |-> modifiedIndex, content |-> originalLine],
             originalIndex |-> originalIndex + 1, modifiedIndex |-> modifiedIndex + 1]
       ELSE IF nextOriginalLine = modifiedLine
       THEN [entry |-> [type |-> "delete", originalIndex |-> originalIndex,
                        content |-> originalLine],
             originalIndex |-> originalIndex + 1, modifiedIndex |-> modifiedIndex]
       ELSE IF nextModifiedLine = originalLine
       THEN [entry |-> [type |-> "insert", modifiedIndex |-> modifiedIndex,
                        content |-> modifiedLine],
             originalIndex |-> originalIndex, modifiedIndex |-> modifiedIndex + 1]
       ELSE [entry |-> [type |-> "replace", originalIndex |-> originalIndex,
                        modifiedIndex |-> modifiedIndex, content |-> modifiedLine,
                        originalContent |-> originalLine],
             originalIndex |-> originalIndex + 1, modifiedIndex |-> modifiedIndex + 1]

\* (line.field || 0): 0 when the entry has no such field
IndexOrZero(line, field) == IF field \in DOMAIN line THEN line[field] ELSE 0

\* the Change for one entry, numbered from 0: the + 1 is missing
ChangeOf_zeroBased(line, changeId) ==
    LET changeType == CASE line.type = "insert" -> "addition"
                        [] line.type = "delete" -> "deletion"
                        [] OTHER -> "modification"
        lineNumber == CASE line.type = "delete" -> IndexOrZero(line, "originalIndex")
                        [] OTHER -> IndexOrZero(line, "modifiedIndex")
        change == [id |-> ToString(changeId), type |-> changeType,
                   lineNumber |-> lineNumber, content |-> line.content,
                   status |-> "pending"]
    IN IF "originalContent" \in DOMAIN line
       THEN change @@ [originalContent |-> line.originalContent]
       ELSE change

\* the Change for one entry, with a delete numbered by the modified-side index
ChangeOf_deleteUsesModifiedIndex(line, changeId) ==
    LET changeType == CASE line.type = "insert" -> "addition"
                        [] line.type = "delete" -> "deletion"
                        [] OTHER -> "modification"
        lineNumber == IndexOrZero(line, "modifiedIndex") + 1
        change == [id |-> ToString(changeId), type |-> changeType,
                   lineNumber |-> lineNumber, content |-> line.content,
                   status |-> "pending"]
    IN IF "originalContent" \in DOMAIN line
       THEN change @@ [originalContent |-> line.originalContent]
       ELSE change

\* the Change pushed for one entry that is not equal; changeId is the counter
ChangeOf(line, changeId) ==
    LET changeType == CASE line.type = "insert" -> "addition"
                        [] line.type = "delete" -> "deletion"
                        [] OTHER -> "modification"
        lineNumber == CASE line.type = "delete" -> IndexOrZero(line, "originalIndex") + 1
                        [] OTHER -> IndexOrZero(line, "modifiedIndex") + 1
        change == [id |-> ToString(changeId), type |-> changeType,
                   lineNumber |-> lineNumber, content |-> line.content,
                   status |-> "pending"]
    IN IF "originalContent" \in DOMAIN line
       THEN change @@ [originalContent |-> line.originalContent]
       ELSE change

\* diffToChanges whose switch has no case for replace
diffToChanges_skipsReplace(diff) ==
    LET kept == SelectSeq(diff, LAMBDA line : line.type \notin {"equal", "replace"})
    IN [k \in 1..Len(kept) |-> ChangeOf(kept[k], k)]

\* diffToChanges that also turns equal entries into Changes
diffToChanges_keepEqual(diff) == [k \in 1..Len(diff) |-> ChangeOf(diff[k], k)]

\* diffToChanges: one Change per entry whose type is not equal, in order
diffToChanges(diff) ==
    LET kept == SelectSeq(diff, LAMBDA line : line.type # "equal")
    IN [k \in 1..Len(kept) |-> ChangeOf(kept[k], k)]

DfIdle == df = [pc |-> "idle"]

\* generateDiff before its loop: the two splits, the cursors at 0, no entry
DfCalled(original, modified) ==
    [pc |-> "loop", original |-> original, modified |-> modified,
     originalLines |-> Split(original), modifiedLines |-> Split(modified),
     originalIndex |-> 0, modifiedIndex |-> 0, diff |-> <<>>]

\* generateDiff(original, modified) is called
DfCall ==
    \E original \in Texts, modified \in Texts :
        /\ df.pc = "idle"
        /\ df' = DfCalled(original, modified)

\* one iteration of the while loop
DfStep ==
    /\ df.pc = "loop"
    /\ df.originalIndex < Len(df.originalLines) \/ df.modifiedIndex < Len(df.modifiedLines)
    /\ LET step == DiffStep(df.originalLines, df.modifiedLines,
                            df.originalIndex, df.modifiedIndex)
       IN df' = [df EXCEPT !.diff = Append(@, step.entry),
                           !.originalIndex = step.originalIndex,
                           !.modifiedIndex = step.modifiedIndex]

\* the loop is over: generateDiff returns and diffToChanges runs on its result
DfToChanges ==
    /\ df.pc = "loop"
    /\ ~(df.originalIndex < Len(df.originalLines) \/ df.modifiedIndex < Len(df.modifiedLines))
    /\ df' = [pc |-> "done", original |-> df.original, modified |-> df.modified,
              originalLines |-> df.originalLines, modifiedLines |-> df.modifiedLines,
              originalIndex |-> df.originalIndex, modifiedIndex |-> df.modifiedIndex,
              diff |-> df.diff, changes |-> diffToChanges(df.diff)]

NextDiff ==
    \/ (DfCall /\ UNCHANGED <<storeVars, gw, cons>>)
    \/ (DfStep /\ UNCHANGED <<storeVars, gw, cons>>)
    \/ (DfToChanges /\ UNCHANGED <<storeVars, gw, cons>>)


Init == StoreIdle /\ GwIdle /\ ConsIdle /\ DfIdle

(***************************************************************************)
(* The document collection and the revision/change collections never touch *)
(* each other's state, so each is explored by a specification of its own.  *)
(***************************************************************************)
NextDocuments ==
    \/ (CallCreateDocument /\ UNCHANGED <<gw, cons, df, inflight>>)
    \/ (CallUpdateDocument /\ UNCHANGED <<gw, cons, df, inflight>>)
    \/ (CallDeleteDocument /\ UNCHANGED <<gw, cons, df, inflight>>)

NextChanges ==
    \/ (CallUpdateChange /\ UNCHANGED <<gw, cons, df, inflight>>)
    \/ (CallUpdateChangeStatus /\ UNCHANGED <<gw, cons, df, inflight>>)
    \/ (PostRevision /\ UNCHANGED <<gw, cons, df, inflight>>)
    \/ (PostChange /\ UNCHANGED <<gw, cons, df, inflight>>)
    \/ (PatchChangeStatus /\ UNCHANGED <<gw, cons, df, inflight>>)

\* a response text and the same text in fences, not yet parsed
InitParse ==
    /\ StoreIdle /\ ConsIdle /\ DfIdle
    /\ \E t \in RespTexts, a, b, c \in {<<>>, <<WS>>} :
          gw = [pc |-> "unparsed", t |-> t, wrapped |-> Wrap(t, a, b, c)]

\* parseAIResponseJSON applied to the text and to the text in fences
ParseCall ==
    /\ gw.pc = "unparsed"
    /\ gw' = [pc |-> "parsed", t |-> gw.t, wrapped |-> gw.wrapped,
              plain |-> parseAIResponseJSON(gw.t),
              fenced |-> parseAIResponseJSON(gw.wrapped)]

NextParse == ParseCall /\ UNCHANGED <<storeVars, cons, df>>

\* the store after createDocument, createRevision and createChange were each
\* called once, at time 0
InitUpdates ==
    /\ \E insertDocument \in InsertDocuments :
          documents = Put(<<>>, 1, Merge(insertDocument,
                              [id |-> 1, createdAt |-> 0, updatedAt |-> 0]))
    /\ \E insertRevision \in InsertRevisions :
          revisions = Put(<<>>, 1, Merge(insertRevision, [id |-> 1, createdAt |-> 0]))
    /\ \E insertChange \in InsertChanges :
          changes = Put(<<>>, 1, Merge(insertChange, [id |-> 1, createdAt |-> 0]))
    /\ currentDocumentId = 2
    /\ currentRevisionId = 2
    /\ currentChangeId = 2
    /\ clock = 0
    /\ res = [op |-> "none"]
    /\ issuedDocIds = <<1>>
    /\ inflight = [r \in Requests |-> [pc |-> "idle"]]
    /\ GwIdle /\ ConsIdle /\ DfIdle

\* the three update methods
NextUpdates ==
    \/ (CallUpdateDocument /\ UNCHANGED <<gw, cons, df, inflight>>)
    \/ (CallUpdateRevision /\ UNCHANGED <<gw, cons, df, inflight>>)
    \/ (CallUpdateChange /\ UNCHANGED <<gw, cons, df, inflight>>)

\* ai-edit requests on the documents createDocument stored
NextAiEdit ==
    \/ (CallCreateDocument /\ UNCHANGED <<gw, cons, df, inflight>>)
    \/ (PostAiEdit /\ UNCHANGED <<gw, cons, df, inflight>>)
    \/ (PostAiEditEnhanced /\ UNCHANGED <<gw, cons, df, inflight>>)

\* documents with revisions and changes posted for them, and deletes
NextDelete ==
    \/ (CallCreateDocument /\ UNCHANGED <<gw, cons, df, inflight>>)
    \/ (PostRevision /\ UNCHANGED <<gw, cons, df, inflight>>)
    \/ (PostChange /\ UNCHANGED <<gw, cons, df, inflight>>)
    \/ (CallDeleteDocument /\ UNCHANGED <<gw, cons, df, inflight>>)

\* the store after createChange was called MaxChanges + 1 times, at time 0
InitRace ==
    /\ documents = <<>>
    /\ revisions = <<>>
    /\ changes \in [ChangeIds -> [revisionId : {1}, type : ChangeTypes,
                                   lineNumber : LineNumbers, content : ChangeContents,
                                   status : {"pending", "accepted"},
                                   id : ChangeIds, createdAt : {0}]]
    /\ \A c \in ChangeIds : changes[c].id = c
    /\ currentDocumentId = 1
    /\ currentRevisionId = 1
    /\ currentChangeId = MaxChanges + 2
    /\ clock = 0
    /\ res = [op |-> "none"]
    /\ issuedDocIds = <<>>
    /\ inflight = [r \in Requests |-> [pc |-> "idle"]]
    /\ GwIdle /\ ConsIdle /\ DfIdle

\* the two requests, in any interleaving
NextRace ==
    \/ \E r \in Requests : PatchStart(r) /\ UNCHANGED <<gw, cons, df>>
    \/ \E r \in Requests : PatchRespond(r) /\ UNCHANGED <<gw, cons, df>>

\* the whole program: every operation of every component
Next == NextDocuments \/ NextChanges \/ NextUpdates \/ NextAiEdit \/ NextDelete \/ NextRace \/ NextVerification \/ NextGateway \/ NextParse \/ NextConsensus \/ NextDiff
Spec == Init /\ [][Next]_vars

SpecDocuments == Init /\ [][NextDocuments]_vars
SpecConsensus == Init /\ [][NextConsensus]_vars
SpecVerification == Init /\ [][NextVerification]_vars
SpecDiff == Init /\ [][NextDiff]_vars
\* One call of generateDiff with any two texts, from the entry of the loop.
\* The code is synchronous: once called, it runs on.
InitDiffCalled ==
    /\ StoreIdle /\ GwIdle /\ ConsIdle
    /\ \E original \in Texts, modified \in Texts : df = DfCalled(original, modified)
NextDiffCalled ==
    \/ (DfStep /\ UNCHANGED <<storeVars, gw, cons>>)
    \/ (DfToChanges /\ UNCHANGED <<storeVars, gw, cons>>)
SpecDiffFair == InitDiffCalled /\ [][NextDiffCalled]_vars /\ WF_vars(NextDiffCalled)
\* the gateway runs with or without GOOGLE_AI_API_KEY in the environment
InitGateway == StoreIdle /\ GwInit /\ ConsIdle /\ DfIdle
SpecGateway == InitGateway /\ [][NextGateway]_vars
SpecParse == InitParse /\ [][NextParse]_vars
SpecChanges == Init /\ [][NextChanges]_vars
SpecUpdates == InitUpdates /\ [][NextUpdates]_vars
SpecAiEdit == Init /\ [][NextAiEdit]_vars
SpecDelete == Init /\ [][NextDelete]_vars
SpecRace == InitRace /\ [][NextRace]_vars

(***************************************************************************)
(* Properties of the store and its handlers.                               *)
(***************************************************************************)

\* C2: a stored Change's status only ever moves pending -> accepted or
\* pending -> rejected; once it is accepted or rejected no operation changes
\* its status again.
C2_StatusOnlyLeavesPending ==
    [][\A id \in DOMAIN changes :
          changes'[id].status # changes[id].status =>
              /\ changes[id].status = "pending"
              /\ changes'[id].status \in {"accepted", "rejected"}]_vars

\* C3: a status-update request whose status is neither accepted nor rejected
\* is answered 400 without calling updateChangeStatus, and the store is left
\* as it was.
C3_InvalidStatusRejected ==
    [][(res'.op = "PATCH status" /\ res'.status \notin {"accepted", "rejected"}) =>
          /\ res'.code = 400
          /\ res'.calls = <<>>
          /\ UNCHANGED <<documents, revisions, changes, currentDocumentId,
                         currentRevisionId, currentChangeId>>]_vars

\* a request with status "pending" named an existing accepted Change and got 400
C3_Witness ==
    /\ res.op = "PATCH status"
    /\ res.status = "pending"
    /\ res.code = 400
    /\ res.id \in DOMAIN changes
    /\ changes[res.id].status = "accepted"

\* C4: the ids createDocument returns start at 1, are strictly increasing in
\* call order and pairwise distinct, and the id of a deleted document is
\* never handed out again.
C4_DocumentIdsIncrease ==
    /\ Len(issuedDocIds) > 0 => issuedDocIds[1] = 1
    /\ \A i, j \in 1..Len(issuedDocIds) : i < j => issuedDocIds[i] < issuedDocIds[j]
    /\ DOMAIN documents \subseteq {issuedDocIds[i] : i \in 1..Len(issuedDocIds)}
    /\ res.op = "createDocument" =>
          /\ res.ret.id = issuedDocIds[Len(issuedDocIds)]
          /\ \A i \in 1..(Len(issuedDocIds) - 1) : issuedDocIds[i] # res.ret.id

\* a document was created after document 1 had been deleted
C4_Witness ==
    /\ res.op = "createDocument"
    /\ Len(issuedDocIds) = 2
    /\ 1 \notin DOMAIN documents

(***************************************************************************)
(* Properties of the gateway.                                              *)
(***************************************************************************)
GwDone == gw.pc \in {"returned", "threw"}

\* C1: when the requested provider's call fails and google is configured and is
\* not the requested provider, exactly one further attempt is made, against
\* google; the caller receives that attempt's result or that attempt's
\* failure, and the requested provider is called only once.
C1_OneFallbackToAlternate ==
    /\ gw.pc # "idle" =>
          \A k \in 2..Len(gw.attempts) : gw.attempts[k].provider # gw.requested
    /\ (/\ GwDone
        /\ gw.attempts[1].outcome.kind = "error"
        /\ gw.googleKey
        /\ gw.requested # "google") =>
          /\ Len(gw.attempts) = 2
          /\ gw.attempts[1].provider = gw.requested
          /\ gw.attempts[2].provider = "google"
          /\ gw.out = gw.attempts[2].outcome
          /\ (gw.pc = "returned") = (gw.attempts[2].outcome.kind = "value")

\* openai failed, google was tried and its value returned
C1_Witness ==
    /\ gw.pc = "returned"
    /\ gw.requested = "openai"
    /\ Len(gw.attempts) = 2
    /\ gw.attempts[1].outcome.kind = "error"
    /\ gw.attempts[2].provider = "google"
    /\ gw.out.kind = "value"

(***************************************************************************)
(* Properties of multiProviderConsensus.                                   *)
(***************************************************************************)
ConsDone == cons.pc \in {"returned", "threw"}

\* the analyses of the providers that succeeded, in call order
Succeeded(log) ==
    LET ok == SelectSeq(log, LAMBDA e : e.ok)
    IN [k \in 1..Len(ok) |-> [provider |-> ok[k].provider, analysis |-> ok[k].analysis]]

\* C5: when at least two providers succeed, the returned value is the result
\* of exactly one synthesis call whose input is exactly the analyses of the
\* providers that succeeded, never one of the analyses itself.
C5_SynthesisOverSurvivors ==
    (ConsDone /\ Len(Succeeded(cons.log)) >= 2) =>
        /\ Len(cons.synth) = 1
        /\ cons.synth[1].input = Succeeded(cons.log)
        /\ cons.synth[1].provider = "openai"
        /\ cons.out = cons.synth[1].outcome
        /\ cons.pc = "returned" => cons.out.value \in JsonValues

\* three providers, one failed, two succeeded, and the synthesis was returned
C5_Witness ==
    /\ cons.pc = "returned"
    /\ Len(cons.log) = 3
    /\ Len(Succeeded(cons.log)) = 2
    /\ Len(cons.synth) = 1

\* C6: when every provider's analysis fails, the call fails with the
\* all-providers-failed error, makes no synthesis call and returns nothing.
C6_AllFailedRaises ==
    (ConsDone /\ Succeeded(cons.log) = <<>>) =>
        /\ cons.pc = "threw"
        /\ cons.out = AllFailed
        /\ cons.synth = <<>>

\* three providers were asked and all three failed
C6_Witness ==
    /\ cons.pc = "threw"
    /\ Len(cons.log) = 3
    /\ \A k \in 1..3 : ~cons.log[k].ok

\* C7 as stated: the call succeeds whenever at least one analysis succeeds,
\* and with exactly one success returns that analysis without a synthesis call.
C7_SucceedsIfAnySucceeds ==
    (ConsDone /\ Len(Succeeded(cons.log)) >= 1) =>
        /\ cons.pc = "returned"
        /\ Len(Succeeded(cons.log)) = 1 =>
              /\ cons.out.value = Succeeded(cons.log)[1].analysis
              /\ cons.synth = <<>>

\* C7 amended: failed analyses are skipped and never make the call fail by
\* themselves.  With exactly one success the call returns that analysis
\* without a synthesis call; with two or more it returns if and only if its
\* one synthesis call succeeds, and fails with that call's error otherwise.
C7_SucceedsUnlessSynthesisFails ==
    (ConsDone /\ Len(Succeeded(cons.log)) >= 1) =>
        /\ cons.out # AllFailed
        /\ Len(Succeeded(cons.log)) = 1 =>
              /\ cons.pc = "returned"
              /\ cons.out.value = Succeeded(cons.log)[1].analysis
              /\ cons.synth = <<>>
        /\ Len(Succeeded(cons.log)) >= 2 =>
              /\ Len(cons.synth) = 1
              /\ cons.out = cons.synth[1].outcome
              /\ (cons.pc = "returned") = (cons.synth[1].outcome.kind = "value")

\* three providers, two failed, the third's analysis was returned as it is
C7_Witness ==
    /\ cons.pc = "returned"
    /\ Len(cons.log) = 3
    /\ Len(Succeeded(cons.log)) = 1
    /\ ~cons.log[1].ok
    /\ cons.synth = <<>>

(***************************************************************************)
(* Properties of the line differ.                                          *)
(***************************************************************************)
Count(diff, type) == Cardinality({k \in 1..Len(diff) : diff[k].type = type})

\* lines with the line at position p (1-based) taken out
Without(lines, p) == SubSeq(lines, 1, p - 1) \o SubSeq(lines, p + 1, Len(lines))

\* longer is shorter with exactly one line inserted at some position
OneLineInserted(shorter, longer) ==
    /\ Len(longer) = Len(shorter) + 1
    /\ \E p \in 1..Len(longer) : Without(longer, p) = shorter

OneChangeRestEqual(diff, type) ==
    /\ Count(diff, type) = 1
    /\ Count(diff, "equal") = Len(diff) - 1

\* C8: generateDiff(s, s) contains only equal entries, and diffToChanges of
\* it is the empty list.
C8_DiffOfSameText ==
    (df.pc = "done" /\ df.original = df.modified) =>
        /\ \A k \in 1..Len(df.diff) : df.diff[k].type = "equal"
        /\ Len(df.diff) = Len(df.originalLines)
        /\ df.changes = <<>>

\* a text of two lines was compared with itself
C8_Witness ==
    /\ df.pc = "done"
    /\ df.original = df.modified
    /\ Len(df.originalLines) = 2
    /\ Len(df.diff) = 2

\* C9 as stated: whenever the modified text is the original with exactly one
\* line inserted, the diff has exactly one insert entry and all others equal.
C9_OneInsertAlways ==
    (df.pc = "done" /\ OneLineInserted(df.originalLines, df.modifiedLines)) =>
        OneChangeRestEqual(df.diff, "insert")

\* the first index (0-based) at which the two line lists differ
FirstDifference(a, b) ==
    CHOOSE q \in 0..Len(a) :
        /\ \A k \in 0..(q - 1) : At(a, k) = At(b, k)
        /\ q < Len(a) => At(a, q) # At(b, q)

\* the inserted line, seen at the first difference q, equals the original
\* line at q + 1: the look-ahead on the original side fires
InsertLooksLikeDelete(a, b) ==
    LET q == FirstDifference(a, b)
    IN q + 1 < Len(a) /\ At(a, q + 1) = At(b, q)

\* C9 amended: when the modified text is the original with exactly one line
\* inserted, the diff has exactly one insert entry and all others equal,
\* unless the modified line at the first difference q equals the original
\* line at q + 1; in that case the diff has a delete entry for original
\* line q.
C9_OneInsertUnlessLookahead ==
    (df.pc = "done" /\ OneLineInserted(df.originalLines, df.modifiedLines)) =>
        IF InsertLooksLikeDelete(df.originalLines, df.modifiedLines)
        THEN /\ ~OneChangeRestEqual(df.diff, "insert")
             /\ \E k \in 1..Len(df.diff) :
                   /\ df.diff[k].type = "delete"
                   /\ df.diff[k].originalIndex =
                          FirstDifference(df.originalLines, df.modifiedLines)
        ELSE OneChangeRestEqual(df.diff, "insert")

\* a line was inserted in front of a two-line text and found as one insert
C9_Witness ==
    /\ df.pc = "done"
    /\ Len(df.originalLines) = 2
    /\ OneLineInserted(df.originalLines, df.modifiedLines)
    /\ df.diff[1].type = "insert"
    /\ OneChangeRestEqual(df.diff, "insert")

\* C10: whenever the modified text is the original with exactly one line
\* deleted, the diff has exactly one delete entry and all others equal.
C10_OneDelete ==
    (df.pc = "done" /\ OneLineInserted(df.modifiedLines, df.originalLines)) =>
        OneChangeRestEqual(df.diff, "delete")

\* the first of two different lines was deleted and found as one delete
C10_Witness ==
    /\ df.pc = "done"
    /\ Len(df.originalLines) = 2
    /\ df.originalLines[1] # df.originalLines[2]
    /\ df.modifiedLines = Tail(df.originalLines)
    /\ df.diff[1].type = "delete"
    /\ OneChangeRestEqual(df.diff, "delete")


\* the position in diff of its n-th entry that is not equal
NthChanged(diff, n) ==
    CHOOSE k \in 1..Len(diff) :
        /\ diff[k].type # "equal"
        /\ Cardinality({m \in 1..k : diff[m].type # "equal"}) = n

\* C11: diffToChanges emits no Change for an equal entry and exactly one
\* Change per other entry, in the order of the entries, each with status
\* pending.
C11_OneChangePerNonEqualEntry ==
    df.pc = "done" =>
        /\ Len(df.changes) = Len(df.diff) - Count(df.diff, "equal")
        /\ \A n \in 1..Len(df.changes) :
              /\ df.changes[n].content = df.diff[NthChanged(df.diff, n)].content
              /\ df.changes[n].id = ToString(n)
              /\ df.changes[n].type # "modification" =>
                    df.diff[NthChanged(df.diff, n)].type # "replace"
              /\ df.changes[n].type = "modification" =>
                    df.diff[NthChanged(df.diff, n)].type = "replace"
              /\ df.changes[n].status = "pending"

\* a diff with an equal entry between two entries that are not equal
C11_Witness ==
    /\ df.pc = "done"
    /\ Len(df.diff) = 3
    /\ df.diff[1].type = "replace"
    /\ df.diff[2].type = "equal"
    /\ df.diff[3].type # "equal"
    /\ Len(df.changes) = 2

\* C12: insert gives addition, delete gives deletion, replace gives
\* modification; lineNumber is the modified-side index + 1 for insert and
\* replace and the original-side index + 1 for delete, index 0 included.
C12_TypeAndLineNumber ==
    df.pc = "done" =>
        \A n \in 1..Len(df.changes) :
            LET line == df.diff[NthChanged(df.diff, n)]
                change == df.changes[n]
            IN /\ line.type = "insert" =>
                     change.type = "addition" /\ change.lineNumber = line.modifiedIndex + 1
               /\ line.type = "delete" =>
                     change.type = "deletion" /\ change.lineNumber = line.originalIndex + 1
               /\ line.type = "replace" =>
                     change.type = "modification" /\ change.lineNumber = line.modifiedIndex + 1

\* a delete at original index 0 became a deletion at line 1, and an entry at
\* a later index is there too
C12_Witness ==
    /\ df.pc = "done"
    /\ Len(df.changes) = 2
    /\ df.diff[1].type = "delete"
    /\ df.diff[1].originalIndex = 0
    /\ df.changes[1].type = "deletion"
    /\ df.changes[1].lineNumber = 1
    /\ df.changes[2].lineNumber = 2


\* C14: deleteDocument(id) returns true and removes the document exactly
\* when id is in the store; for an id that is unknown or already deleted it
\* returns false and leaves the store as it was.
C14_DeleteExactlyWhenPresent ==
    [][res'.op = "deleteDocument" =>
        /\ res'.ret = (res'.id \in DOMAIN documents)
        /\ res'.id \in DOMAIN documents =>
              /\ DOMAIN documents' = DOMAIN documents \ {res'.id}
              /\ \A d \in DOMAIN documents' : documents'[d] = documents[d]
        /\ res'.id \notin DOMAIN documents =>
              /\ res'.ret = FALSE
              /\ documents' = documents
        /\ UNCHANGED <<revisions, changes, currentDocumentId, currentRevisionId,
                       currentChangeId>>]_vars

\* an id that createDocument issued was deleted and then deleted again:
\* the second call returned false, and another document is still stored
C14_Witness ==
    /\ res.op = "deleteDocument"
    /\ res.ret = FALSE
    /\ \E k \in 1..Len(issuedDocIds) : issuedDocIds[k] = res.id
    /\ res.id \notin DOMAIN documents
    /\ documents # <<>>



\* One update of the collection old, giving new and returning ret: an id that
\* is not stored gives undefined and no change; a stored id keeps every other
\* record, and its own record takes the fields of updateData, the time now
\* in the fields of refreshed, and keeps the rest, its id included.
UpdateMerges(old, new, id, updateData, ret, refreshed, now) ==
    IF id \notin DOMAIN old
    THEN ret = Undefined /\ new = old
    ELSE /\ DOMAIN new = DOMAIN old
         /\ \A k \in DOMAIN old \ {id} : new[k] = old[k]
         /\ new[id] = ret
         /\ DOMAIN new[id] = DOMAIN old[id]
         /\ new[id].id = id
         /\ \A f \in DOMAIN old[id] :
               new[id][f] = IF f \in refreshed THEN now
                            ELSE IF f \in DOMAIN updateData THEN updateData[f]
                            ELSE old[id][f]

\* C15 (as stated): updateDocument, updateRevision and updateChange return
\* absent and change nothing for an unknown id; for a known id they overwrite
\* only the provided fields and keep the id and every field not provided.
C15_UpdatesKeepUnprovidedFields ==
    [][/\ res'.op = "updateDocument" =>
             /\ UpdateMerges(documents, documents', res'.id, res'.updateData,
                             res'.ret, {}, clock')
             /\ UNCHANGED <<revisions, changes>>
       /\ res'.op = "updateRevision" =>
             /\ UpdateMerges(revisions, revisions', res'.id, res'.updateData,
                             res'.ret, {}, clock')
             /\ UNCHANGED <<documents, changes>>
       /\ res'.op = "updateChange" =>
             /\ UpdateMerges(changes, changes', res'.id, res'.updateData,
                             res'.ret, {}, clock')
             /\ UNCHANGED <<documents, revisions>>]_vars

\* C15 (amended): as above, except that updateDocument on a known id also
\* sets updatedAt to the current time, whether or not it was provided.
C15_UpdatesKeepAllButUpdatedAt ==
    [][/\ res'.op = "updateDocument" =>
             /\ UpdateMerges(documents, documents', res'.id, res'.updateData,
                             res'.ret, {"updatedAt"}, clock')
             /\ UNCHANGED <<revisions, changes>>
       /\ res'.op = "updateRevision" =>
             /\ UpdateMerges(revisions, revisions', res'.id, res'.updateData,
                             res'.ret, {}, clock')
             /\ UNCHANGED <<documents, changes>>
       /\ res'.op = "updateChange" =>
             /\ UpdateMerges(changes, changes', res'.id, res'.updateData,
                             res'.ret, {}, clock')
             /\ UNCHANGED <<documents, revisions>>]_vars

\* updateDocument was given a name only, on a stored document, at a later
\* time than its creation: the stored record has the new updatedAt
C15_Witness ==
    /\ res.op = "updateDocument"
    /\ res.ret # Undefined
    /\ DOMAIN res.updateData = {"name"}
    /\ res.id \in DOMAIN documents
    /\ documents[res.id] = res.ret
    /\ documents[res.id].updatedAt > documents[res.id].createdAt


\* C16: every Change has status pending in the state right after the step
\* that created it, whichever handler created it.
C16_CreatedChangeIsPending ==
    [][\A id \in DOMAIN changes' \ DOMAIN changes :
          changes'[id].status = "pending"]_vars

\* C17: each stored Change's revisionId is the id of a stored Revision, and
\* each stored Revision's documentId is the id of a stored Document (ids are
\* the keys of the maps, so a stored id names exactly one record).
C17_EveryRecordHasItsParent ==
    /\ \A c \in DOMAIN changes : changes[c].revisionId \in DOMAIN revisions
    /\ \A r \in DOMAIN revisions : revisions[r].documentId \in DOMAIN documents


\* C18: for every JSON text t, parseAIResponseJSON returns the same value for
\* t between an opening json fence and a closing fence as for t itself.
C18_FencedParsesAsUnfenced ==
    (gw.pc = "parsed" /\ JsonParse(gw.t).ok) =>
        /\ gw.plain.kind = "value"
        /\ gw.fenced = gw.plain

\* a JSON text with white space around it, wrapped with white space on both
\* sides of the closing fence, was parsed to its value
C18_Witness ==
    /\ gw.pc = "parsed"
    /\ gw.t = <<"[]", WS>>
    /\ gw.wrapped = <<FenceJson, WS, "[]", WS, WS, Fence, WS>>
    /\ gw.fenced = [kind |-> "value", value |-> "[]"]

\* C19: when the text a vendor answered is not valid JSON after the fences
\* are stripped, the getAIResponse call fails with a parse error that carries
\* that raw text, and returns no value.
C19_ParseErrorCarriesRawText ==
    GwDone =>
        \A k \in 1..Len(gw.attempts) :
            (/\ gw.attempts[k].reply.kind = "text"
             /\ ~JsonParse(StripFences(gw.attempts[k].reply.text)).ok) =>
                /\ gw.pc = "threw"
                /\ gw.attempts[k].outcome.kind = "error"
                /\ gw.out = gw.attempts[k].outcome
                /\ "raw" \in DOMAIN gw.out
                /\ gw.out.raw = gw.attempts[k].reply.text

\* C20: a request makes at most one fallback hop: a failure of google, or a
\* failure with no google key configured, is thrown to the caller with no
\* further attempt; a failure of the fallback attempt is thrown to the caller
\* with no third attempt.
C20_AtMostOneFallbackHop ==
    /\ gw.pc # "idle" => Len(gw.attempts) <= 2
    /\ (/\ GwDone
        /\ gw.attempts[1].outcome.kind = "error"
        /\ (gw.requested = "google" \/ ~gw.googleKey)) =>
          /\ Len(gw.attempts) = 1
          /\ gw.pc = "threw"
          /\ gw.out = gw.attempts[1].outcome
    /\ (GwDone /\ Len(gw.attempts) = 2 /\ gw.attempts[2].outcome.kind = "error") =>
          /\ gw.pc = "threw"
          /\ gw.out = gw.attempts[2].outcome

\* anthropic failed with no google key configured: one attempt, thrown
C20_Witness ==
    /\ gw.pc = "threw"
    /\ ~gw.googleKey
    /\ gw.requested = "anthropic"
    /\ Len(gw.attempts) = 1
    /\ gw.out = gw.attempts[1].outcome


\* C13: after an ai-edit request on a stored document answered 200, the store
\* has a new Revision of that document whose content is the editedContent
\* the edit service returned, and one new Change record of that Revision per
\* proposed change, with the proposed type and lineNumber and status pending.
C13_AiEditStoresRevisionAndChanges ==
    [][(res'.op = "POST ai-edit" /\ res'.code = 200) =>
        \E r \in DOMAIN revisions' \ DOMAIN revisions :
            /\ revisions'[r].documentId = res'.id
            /\ revisions'[r].content = res'.reply.value.editedContent
            /\ \E f \in [1..Len(res'.reply.value.changes) ->
                             DOMAIN changes' \ DOMAIN changes] :
                  /\ \A c \in DOMAIN changes' \ DOMAIN changes :
                        \E k \in DOMAIN f : f[k] = c
                  /\ \A j, k \in DOMAIN f : f[j] = f[k] => j = k
                  /\ \A k \in DOMAIN f :
                        /\ changes'[f[k]].revisionId = r
                        /\ changes'[f[k]].type = res'.reply.value.changes[k].type
                        /\ changes'[f[k]].lineNumber = res'.reply.value.changes[k].lineNumber
                        /\ changes'[f[k]].status = "pending"]_vars


\* C23: every Change of diffToChanges(generateDiff(o, m)) has a lineNumber
\* that resolves against the text it was computed from: an addition or a
\* modification names a line of m that has the Change's content, a deletion
\* names a line of o that has the Change's content.
C23_LineNumberResolves ==
    df.pc = "done" =>
        \A n \in 1..Len(df.changes) :
            LET change == df.changes[n]
                lines == IF change.type = "deletion" THEN df.originalLines
                         ELSE df.modifiedLines
            IN /\ 1 <= change.lineNumber
               /\ change.lineNumber <= Len(lines)
               /\ lines[change.lineNumber] = change.content

\* the second line of two-line texts was changed: a modification at line 2
\* whose content is line 2 of m
C23_Witness ==
    /\ df.pc = "done"
    /\ Len(df.originalLines) = 2
    /\ Len(df.modifiedLines) = 2
    /\ \E n \in 1..Len(df.changes) :
          /\ df.changes[n].type = "modification"
          /\ df.changes[n].lineNumber = 2
          /\ df.changes[n].content = df.modifiedLines[2]

\* C24: when the original is the empty string generateDiff gives only insert
\* entries (or none), and when the modified text is the empty string only
\* delete entries (or none).
C24_EmptyTextGivesOnlyInsertsOrDeletes ==
    df.pc = "done" =>
        /\ df.original = <<>> =>
              \A k \in 1..Len(df.diff) : df.diff[k].type = "insert"
        /\ df.modified = <<>> =>
              \A k \in 1..Len(df.diff) : df.diff[k].type = "delete"


\* C25: generateDiff is the six-step cursor walk: from both cursors at 0,
\* while a line is left, (1) original exhausted: insert B[j], advance j;
\* (2) modified exhausted: delete A[i], advance i; (3) A[i] = B[j]: equal,
\* advance both; (4) A[i+1] = B[j]: delete A[i], advance i; (5) B[j+1] = A[i]:
\* insert B[j], advance j; (6) otherwise replace, advance both; each case is
\* tried only when the ones before it do not apply.
C25_SixStepWalk ==
    [][/\ (df.pc = "idle" /\ df'.pc = "loop") =>
             /\ df'.originalIndex = 0
             /\ df'.modifiedIndex = 0
             /\ df'.diff = <<>>
       /\ (df.pc = "loop" /\ df'.pc = "done") =>
             /\ df.originalIndex >= Len(df.originalLines)
             /\ df.modifiedIndex >= Len(df.modifiedLines)
             /\ df'.diff = df.diff
       /\ (df.pc = "loop" /\ df'.pc = "loop") =>
             LET A == df.originalLines
                 B == df.modifiedLines
                 i == df.originalIndex
                 j == df.modifiedIndex
                 walked(entry, di, dj) ==
                     /\ df'.diff = Append(df.diff, entry)
                     /\ df'.originalIndex = i + di
                     /\ df'.modifiedIndex = j + dj
             IN /\ i < Len(A) \/ j < Len(B)
                /\ CASE i >= Len(A) ->
                          walked([type |-> "insert", modifiedIndex |-> j,
                                  content |-> B[j + 1]], 0, 1)
                     [] i < Len(A) /\ j >= Len(B) ->
                          walked([type |-> "delete", originalIndex |-> i,
                                  content |-> A[i + 1]], 1, 0)
                     [] OTHER ->
                          IF A[i + 1] = B[j + 1]
                          THEN walked([type |-> "equal", originalIndex |-> i,
                                       modifiedIndex |-> j, content |-> A[i + 1]], 1, 1)
                          ELSE IF i + 1 < Len(A) /\ A[i + 2] = B[j + 1]
                          THEN walked([type |-> "delete", originalIndex |-> i,
                                       content |-> A[i + 1]], 1, 0)
                          ELSE IF j + 1 < Len(B) /\ B[j + 2] = A[i + 1]
                          THEN walked([type |-> "insert", modifiedIndex |-> j,
                                       content |-> B[j + 1]], 0, 1)
                          ELSE walked([type |-> "replace", originalIndex |-> i,
                                       modifiedIndex |-> j, content |-> B[j + 1],
                                       originalContent |-> A[i + 1]], 1, 1)]_vars

\* both look-aheads matched at the first lines (a, b against b, a) and the
\* original-side one was taken: delete, then equal, then insert
C25_Witness ==
    /\ df.pc = "done"
    /\ df.originalLines = << <<"a">>, <<"b">> >>
    /\ df.modifiedLines = << <<"b">>, <<"a">> >>
    /\ Len(df.diff) = 3
    /\ df.diff[1].type = "delete"
    /\ df.diff[2].type = "equal"
    /\ df.diff[3].type = "insert"


\* the content an entry has on the original side
OriginalContentOf(entry) ==
    IF entry.type = "replace" THEN entry.originalContent ELSE entry.content

\* C28: generateDiff is lossless: the equal, delete and replace entries, in
\* output order, are the lines of o (originalContent for replace) with
\* originalIndex 0, 1, 2, ...; the equal, insert and replace entries are the
\* lines of m with modifiedIndex 0, 1, 2, ...
C28_DiffIsLossless ==
    df.pc = "done" =>
        LET originalSide == SelectSeq(df.diff,
                LAMBDA entry : entry.type \in {"equal", "delete", "replace"})
            modifiedSide == SelectSeq(df.diff,
                LAMBDA entry : entry.type \in {"equal", "insert", "replace"})
        IN /\ Len(originalSide) = Len(df.originalLines)
           /\ \A k \in 1..Len(originalSide) :
                 /\ OriginalContentOf(originalSide[k]) = df.originalLines[k]
                 /\ originalSide[k].originalIndex = k - 1
           /\ Len(modifiedSide) = Len(df.modifiedLines)
           /\ \A k \in 1..Len(modifiedSide) :
                 /\ modifiedSide[k].content = df.modifiedLines[k]
                 /\ modifiedSide[k].modifiedIndex = k - 1

\* a replace followed by an insert: one original line, two modified lines
C28_Witness ==
    /\ df.pc = "done"
    /\ Len(df.diff) = 2
    /\ df.diff[1].type = "replace"
    /\ df.diff[1].originalContent # df.diff[1].content
    /\ df.diff[2].type = "insert"

\* C30: generateDiff terminates: every iteration pushes exactly one entry and
\* advances at least one cursor, no cursor passes its line count, the output
\* never has more entries than the two texts have lines, and the loop is
\* eventually left.
C30_DiffTerminates ==
    /\ [](df.pc \in {"loop", "done"} =>
            /\ df.originalIndex <= Len(df.originalLines)
            /\ df.modifiedIndex <= Len(df.modifiedLines)
            /\ Len(df.diff) <= Len(df.originalLines) + Len(df.modifiedLines))
    /\ [][(df.pc = "loop" /\ df'.pc = "loop") =>
            /\ Len(df'.diff) = Len(df.diff) + 1
            /\ df'.originalIndex >= df.originalIndex
            /\ df'.modifiedIndex >= df.modifiedIndex
            /\ df'.originalIndex + df'.modifiedIndex
                  > df.originalIndex + df.modifiedIndex]_vars
    /\ (df.pc = "loop" ~> df.pc = "done")

\* a run of three iterations over two lines against two lines has ended
C30_Witness ==
    /\ df.pc = "done"
    /\ Len(df.originalLines) = 2
    /\ Len(df.modifiedLines) = 2
    /\ Len(df.diff) = 3
    /\ df.originalIndex = 2
    /\ df.modifiedIndex = 2


\* C26: deleteDocument changes nothing but the documents collection: every
\* Revision and Change stays stored unchanged, getRevision,
\* getRevisionsByDocument, getChange and getChangesByRevision return what they
\* returned before, and the three id counters are unchanged.
C26_DeleteLeavesRevisionsAndChanges ==
    [][res'.op = "deleteDocument" =>
        /\ UNCHANGED <<revisions, changes>>
        /\ UNCHANGED <<currentDocumentId, currentRevisionId, currentChangeId>>
        /\ \A r \in RevIds : getRevision(r)' = getRevision(r)
        /\ \A d \in DocIds : getRevisionsByDocument(d)' = getRevisionsByDocument(d)
        /\ \A c \in DOMAIN changes : getChange(c)' = getChange(c)
        /\ \A r \in RevIds : getChangesByRevision(r)' = getChangesByRevision(r)]_vars

\* a document with a Revision and a Change of that Revision was deleted: the
\* Revision and the Change are still returned
C26_Witness ==
    /\ res.op = "deleteDocument"
    /\ res.ret = TRUE
    /\ res.id \notin DOMAIN documents
    /\ Len(getRevisionsByDocument(res.id)) = 1
    /\ Len(getChangesByRevision(getRevisionsByDocument(res.id)[1].id)) >= 1


\* C29: when an ai-edit request is answered with a failure, the store has no
\* Revision and no Change that was not there before the request; a Revision
\* is stored only together with one Change record per proposed change.
C29_FailedAiEditStoresNothing ==
    [][res'.op = "POST ai-edit" =>
        /\ res'.code # 200 => UNCHANGED <<revisions, changes>>
        /\ \A r \in DOMAIN revisions' \ DOMAIN revisions :
              /\ res'.code = 200
              /\ Len(getChangesByRevision(r)') = Len(res'.reply.value.changes)]_vars


\* the requests whose storage call on change c has run
Writers(c) == {r \in Requests : "seq" \in DOMAIN inflight[r] /\ inflight[r].id = c}

\* C22: under any interleaving of concurrent status updates, an update
\* changes no record but the one of its own id, and of that one only the
\* status; a Change that was updated has the status written by the update
\* that executed last.
C22_LastWriteWins ==
    /\ [][\A c \in DOMAIN changes :
            changes'[c] # changes[c] =>
                \E r \in Requests :
                    /\ inflight[r].pc = "idle"
                    /\ inflight'[r].pc = "awaiting"
                    /\ inflight'[r].id = c
                    /\ changes'[c] = [changes[c] EXCEPT !.status = inflight'[r].status]]_vars
    /\ [][DOMAIN changes' = DOMAIN changes /\ UNCHANGED <<documents, revisions>>]_vars
    /\ [](\A c \in DOMAIN changes :
            Writers(c) # {} =>
                \E last \in Writers(c) :
                    /\ \A r \in Writers(c) : inflight[r].seq <= inflight[last].seq
                    /\ changes[c].status = inflight[last].status)

\* both requests updated change 1, r2 first with accepted and r1 last with
\* rejected: change 1 is rejected
C22_Witness ==
    /\ inflight["r1"].pc = "responded"
    /\ inflight["r2"].pc = "responded"
    /\ inflight["r1"].id = 1 /\ inflight["r2"].id = 1
    /\ inflight["r1"].code = 200 /\ inflight["r2"].code = 200
    /\ inflight["r2"].seq = 1 /\ inflight["r2"].status = "accepted"
    /\ inflight["r1"].seq = 2 /\ inflight["r1"].status = "rejected"
    /\ changes[1].status = "rejected"


\* C21: the gateway returns no default or empty result in place of a failure:
\* when the vendor call that decides the request threw, or answered without
\* content or with empty content, the request fails.
C21_NoDefaultInPlaceOfFailure ==
    GwDone =>
        LET last == gw.attempts[Len(gw.attempts)]
        IN (\/ last.reply.kind \in {"throw", "none"}
            \/ (last.reply.kind = "text" /\ last.reply.text = <<>>)) =>
               gw.pc = "threw"


\* C27: enhancedAnalysisWithVerification calls the primary provider's
\* analysis first and the verification provider only after that succeeded; a
\* failure of the primary analysis is thrown with the verification provider
\* never called; the returned object has the verifier's fields and a metadata
\* field naming the primary provider, the verification provider and the
\* time, whatever metadata the verifier returned.
C27_VerifyAfterPrimary ==
    cons.pc \in {"analysing", "verifying", "returned", "threw"} =>
        /\ Len(cons.calls) <= 2
        /\ Len(cons.calls) >= 1 =>
              /\ cons.calls[1].fn = "analysisFunction"
              /\ cons.calls[1].provider = cons.primaryProvider
        /\ Len(cons.calls) = 2 =>
              /\ cons.calls[1].outcome.kind = "value"
              /\ cons.calls[2].fn = "crossVerifyAnalysis"
              /\ cons.calls[2].provider = cons.verificationProvider
        /\ (Len(cons.calls) >= 1 /\ cons.calls[1].outcome.kind = "error") =>
              /\ cons.pc = "threw"
              /\ Len(cons.calls) = 1
              /\ cons.out = cons.calls[1].outcome
        /\ cons.pc = "returned" =>
              /\ Len(cons.calls) = 2
              /\ cons.calls[2].outcome.kind = "value"
              /\ cons.out.value.metadata.primaryProvider = cons.primaryProvider
              /\ cons.out.value.metadata.verificationProvider = cons.verificationProvider
              /\ cons.out.value.metadata.timestamp = clock
              /\ \A f \in DOMAIN cons.calls[2].outcome.value \ {"metadata"} :
                    cons.out.value[f] = cons.calls[2].outcome.value[f]

\* the verifier answered with a metadata field of its own, and the returned
\* object names the two providers instead
C27_Witness ==
    /\ cons.pc = "returned"
    /\ cons.primaryProvider = "openai"
    /\ cons.verificationProvider = "anthropic"
    /\ "metadata" \in DOMAIN cons.calls[2].outcome.value
    /\ cons.out.value.metadata.primaryProvider = "openai"
    /\ cons.out.value.metadata.verificationProvider = "anthropic"
    /\ cons.out.value.verificationNotes = "n2"

====
